---- MODULE Spec2Model ----
(***************************************************************************)
(* Model of the Indexer of vectara-ingest (core/indexer.py): the document  *)
(* submission state machine (index_document, delete_doc, index_file,       *)
(* index_segments), the headless fetch (fetch_content_with_timeout), the   *)
(* extraction of a page (get_content_and_title) and the ingestion of a URL *)
(* (index_url); of normalize_url (core/utils.py); and of the crawl loop of *)
(* FmpCrawler (crawlers/fmp_crawler.py).                                   *)
(*                                                                         *)
(* Strings are modelled as sequences of chunks of characters: every        *)
(* literal the code searches for or splits on ("OK", "ALREADY_EXISTS",     *)
(* "document id", "'", ...) is one chunk, so Python's substring test       *)
(* `x in s` is the contiguous-subsequence test Contains(x, s) and          *)
(* `s.split(x)` is Split(s, x).                                            *)
(*                                                                         *)
(* The remote service and the browser are the environment: every request   *)
(* the code issues draws its outcome (a transport exception, or a response *)
(* with an HTTP status and a payload) from a bounded set.                  *)
(***************************************************************************)
EXTENDS Integers, Sequences, FiniteSets, TLC

VARIABLES
    reindex,     \* Indexer.reindex (set by __init__, never changed)
    detected_language, \* Indexer.detected_language, "" until it is detected
    crawl,       \* configuration and local variables of the running FmpCrawler.crawl
    pc,          \* position of the single thread inside the current call
    op,          \* the method being executed ("none" when idle)
    doc,         \* documentId the current call works on
    log,         \* requests issued by the current call, in order
    first,       \* outcome of the first request of the current call
    second,      \* outcome of the delete request of the current call
    third,       \* outcome of the resubmission of the current call
    handed,      \* document handed to index_document, until it is serialized
    args,        \* arguments of the current call, until the hand-over
    ret,         \* value returned by a call that returns neither bool nor fetch pair
    result,      \* "none" | "True" | "False" | "raised" | "returned"
    connected,   \* self.browser.is_connected()
    launches,    \* number of firefox.launch calls so far (capped)
    contexts,    \* browsing contexts that are open
    pages,       \* pages that are open
    context,     \* local variable context of the running fetch (0 = None)
    page,        \* local variable page of the running fetch (0 = None)
    url,         \* variable url of the running fetch or index_url
    fetched,     \* pair returned by the running fetch
    exit,        \* the browser operation that ended the running fetch, and how
    relaunched   \* whether the running fetch launched a new browser

vars == <<reindex, detected_language, crawl, pc, op, doc, log, first, second, third, handed, args, ret, result,
          connected, launches, contexts, pages, context, page, url, fetched,
          exit, relaunched>>

callVars == <<handed, args, ret>>
indexVars == <<doc, log, first, second, third, callVars>>
browserVars ==
    <<connected, launches, contexts, pages, context, page, url, fetched, exit,
      relaunched>>

NoExit == [step |-> "none", out |-> "none"]

----------------------------------------------------------------------------
(* Strings as sequences of chunks *)

\* Python `needle in s` for strings
Contains(needle, s) ==
    \E i \in 1..(Len(s) - Len(needle) + 1) :
        SubSeq(s, i, i + Len(needle) - 1) = needle

\* position of the first chunk equal to sep, 0 when there is none
FirstIndex(s, sep) ==
    IF \E i \in 1..Len(s) : s[i] = sep
    THEN CHOOSE i \in 1..Len(s) : s[i] = sep /\ \A j \in 1..(i - 1) : s[j] # sep
    ELSE 0

RECURSIVE Split(_, _)
\* Python s.split(sep), sep a single chunk: the list of the pieces between
\* the occurrences of sep
Split(s, sep) ==
    LET i == FirstIndex(s, sep)
    IN  IF i = 0 THEN <<s>>
        ELSE <<SubSeq(s, 1, i - 1)>> \o Split(SubSeq(s, i + 1, Len(s)), sep)

----------------------------------------------------------------------------
(* The remote service's answers *)

OK == <<"OK">>
ALREADY_EXISTS == <<"ALREADY_EXISTS">>
CONFLICT == <<"CONFLICT">>
UpdateUnsupported == <<"Indexing doesn't support updating documents">>

\* application status codes the remote may answer with
Codes ==
    { OK, ALREADY_EXISTS, CONFLICT,
      <<"INVALID_ARGUMENT">>,
      <<"NOT_", "OK">>,
      <<"ADM__", "ALREADY_EXISTS">> }

\* statusDetail texts the remote may answer with
StatusDetails ==
    { UpdateUnsupported,
      <<"Doc d1: ", "Indexing doesn't support updating documents", ".">>,
      <<"Corpus is read-only">> }

\* result["status"]: absent, falsy ({} or null), or a dict with optional keys
NoStatus ==
    [present |-> FALSE, truthy |-> FALSE, hasCode |-> FALSE, code |-> <<>>,
     hasDetail |-> FALSE, statusDetail |-> <<>>]
EmptyStatus == [NoStatus EXCEPT !.present = TRUE]
Statuses ==
    { NoStatus, EmptyStatus }
    \cup { [present |-> TRUE, truthy |-> TRUE, hasCode |-> TRUE, code |-> c,
            hasDetail |-> FALSE, statusDetail |-> <<>>] : c \in Codes }
    \cup { [present |-> TRUE, truthy |-> TRUE, hasCode |-> TRUE, code |-> c,
            hasDetail |-> TRUE, statusDetail |-> d] : c \in Codes, d \in StatusDetails }
    \cup { [present |-> TRUE, truthy |-> TRUE, hasCode |-> FALSE, code |-> <<>>,
            hasDetail |-> TRUE, statusDetail |-> d] : d \in StatusDetails }

\* document ids
DocIds == { <<"d1">>, <<"d2">> }

\* response.json()['details'] of an upload answer
Details ==
    { <<"Document with ", "document id", " ", "'", "d1", "'", " already exists">>,
      <<"'", "corpus", "'", ": ", "document id", "'", "d2", "'">>,
      <<"document id", " d1 already exists">>,
      <<"Conflict">> }

HttpStatuses == { 200, 409, 500 }

\* a request that raised in the transport layer (requests exception)
TransportError ==
    [exc |-> TRUE, status |-> 0, json |-> FALSE, st |-> NoStatus,
     hasDetails |-> FALSE, details |-> <<>>]

\* the value of first/second/third before the request is made
NoResponse == [TransportError EXCEPT !.exc = FALSE]

\* a response whose body is not JSON: response.json() raises
Malformed(s) == [NoResponse EXCEPT !.status = s]

\* outcomes of POST /v1/index
IndexOutcomes ==
    { TransportError }
    \cup { Malformed(s) : s \in HttpStatuses }
    \cup { [exc |-> FALSE, status |-> s, json |-> TRUE, st |-> t,
            hasDetails |-> FALSE, details |-> <<>>] : s \in HttpStatuses, t \in Statuses }

\* outcomes of POST /v1/delete-doc
DeleteOutcomes ==
    { TransportError } \cup { Malformed(s) : s \in HttpStatuses }

\* outcomes of POST /upload
UploadOutcomes ==
    { TransportError }
    \cup { Malformed(s) : s \in HttpStatuses }
    \cup { [exc |-> FALSE, status |-> s, json |-> TRUE, st |-> NoStatus,
            hasDetails |-> FALSE, details |-> <<>>] : s \in HttpStatuses }
    \cup { [exc |-> FALSE, status |-> s, json |-> TRUE, st |-> NoStatus,
            hasDetails |-> TRUE, details |-> d] : s \in HttpStatuses, d \in Details }

\* outcomes of the resubmission in the reindex branch (line 406): the answers
\* of POST /v1/index without a statusDetail, plus a payload without a status
ResubmitOutcomes ==
    { o \in IndexOutcomes :
        o.exc \/ ~o.json \/ o.st \in {NoStatus}
        \/ (o.st.hasCode /\ ~o.st.hasDetail) }

Request(kind, id) == [kind |-> kind, id |-> id]

----------------------------------------------------------------------------
(* Documents *)

\* all sequences over S of length at most n
SeqsUpTo(S, n) == UNION { [1..k -> S] : k \in 0..n }

\* a Python dict is modelled as the sequence of its <<key, value>> items
RECURSIVE json_items(_)
\* the items of json.dumps(dict), separated by ", "
json_items(d) ==
    IF Len(d) = 0 THEN <<>>
    ELSE IF Len(d) = 1 THEN <<"\"" \o d[1][1] \o "\"", ": ", "\"" \o d[1][2] \o "\"">>
    ELSE <<"\"" \o d[1][1] \o "\"", ": ", "\"" \o d[1][2] \o "\"", ", ">>
         \o json_items(Tail(d))

\* json.dumps of a dict of strings
json_dumps(d) == <<"{">> \o json_items(d) \o <<"}">>

\* a document dict: documentId, optional title, section list, optional
\* metadataJson
NoDocument ==
    [documentId |-> <<>>, hasTitle |-> FALSE, title |-> "", section |-> <<>>,
     hasMetadata |-> FALSE, metadataJson |-> <<>>]

NoArgs == [name |-> "none"]

NoRet == <<>>

\* no crawl is running
NoCrawl ==
    [tickers |-> <<>>, start_year |-> 0, end_year |-> 0, ticker |-> 0,
     year |-> 0, quarter |-> 0, filings |-> "none", attempted |-> {},
     indexed |-> "none"]

----------------------------------------------------------------------------
(* index_document: interpretation of the first response *)

\* lines 400-402: the already-exists / conflict test; "raise" is the KeyError
\* of a status without "code", or of a CONFLICT status without "statusDetail"
IsConflict(st) ==
    IF ~st.present \/ ~st.truthy THEN "false"
    ELSE IF ~st.hasCode THEN "raise"
    ELSE IF Contains(ALREADY_EXISTS, st.code) THEN "true"
    ELSE IF Contains(CONFLICT, st.code)
         THEN IF ~st.hasDetail THEN "raise"
              ELSE IF Contains(UpdateUnsupported, st.statusDetail) THEN "true"
              ELSE "false"
    ELSE "false"

\* line 411: the OK test
IsOK(st) ==
    IF ~st.present \/ ~st.truthy THEN "false"
    ELSE IF ~st.hasCode THEN "raise"
    ELSE IF Contains(OK, st.code) THEN "true"
    ELSE "false"

\* index_document_interpret with the test of self.reindex (line 403) left out
index_document_interpret_always_reindex(o, re) ==
    IF o.exc THEN "False"
    ELSE IF o.status # 200 THEN "False"
    ELSE IF ~o.json THEN "raised"
    ELSE IF IsConflict(o.st) = "raise" THEN "raised"
    ELSE IF IsConflict(o.st) = "true" THEN "delete"
    ELSE IF IsOK(o.st) = "raise" THEN "raised"
    ELSE IF IsOK(o.st) = "true" THEN "True"
    ELSE "False"

\* index_document_interpret with the test of the HTTP status (line 392) made
\* after the payload is read instead of before
index_document_interpret_status_last(o, re) ==
    IF o.exc THEN "False"
    ELSE IF ~o.json THEN (IF o.status # 200 THEN "False" ELSE "raised")
    ELSE IF IsConflict(o.st) = "raise" THEN "raised"
    ELSE IF IsConflict(o.st) = "true" THEN (IF re THEN "delete" ELSE "False")
    ELSE IF o.status # 200 THEN "False"
    ELSE IF IsOK(o.st) = "raise" THEN "raised"
    ELSE IF IsOK(o.st) = "true" THEN "True"
    ELSE "False"

\* lines 386-415 after the first POST returned outcome o: where the call goes
\* next: "delete" (the reindex branch) or the way it ends
index_document_interpret(o, re) ==
    IF o.exc THEN "False"
    ELSE IF o.status # 200 THEN "False"
    ELSE IF ~o.json THEN "raised"
    ELSE IF IsConflict(o.st) = "raise" THEN "raised"
    ELSE IF IsConflict(o.st) = "true" THEN (IF re THEN "delete" ELSE "False")
    ELSE IF IsOK(o.st) = "raise" THEN "raised"
    ELSE IF IsOK(o.st) = "true" THEN "True"
    ELSE "False"

\* delete_doc with the test of the status code (line 212) left out
delete_doc_ignores_status(o) ==
    IF o.exc THEN "raised"
    ELSE "True"

\* delete_doc, lines 208-215: the value it returns, or "raised" when the
\* POST raises (it is not inside a try)
delete_doc(o) ==
    IF o.exc THEN "raised"
    ELSE IF o.status # 200 THEN "False"
    ELSE "True"

----------------------------------------------------------------------------
Init ==
    /\ reindex \in BOOLEAN
    /\ detected_language = ""
    /\ crawl = NoCrawl
    /\ pc = "idle"
    /\ op = "none"
    /\ doc = <<>>
    /\ log = <<>>
    /\ first = NoResponse
    /\ second = NoResponse
    /\ third = NoResponse
    /\ handed = NoDocument
    /\ args = NoArgs
    /\ ret = NoRet
    /\ result = "none"
    /\ connected = TRUE
    /\ launches = 1
    /\ contexts = {}
    /\ pages = {}
    /\ context = 0
    /\ page = 0
    /\ url = <<>>
    /\ fetched = <<"", "">>
    /\ exit = NoExit
    /\ relaunched = FALSE

\* a call ends: with a value, or with an exception
Finish(r) ==
    /\ pc' = "done"
    /\ result' = r

\* index_document(document), lines 368-384: the request is serialized
index_document_call(d, serializable) ==
    /\ pc = "idle"
    /\ op' = "index_document"
    /\ doc' = d
    /\ handed' = [NoDocument EXCEPT !.documentId = d]
    /\ args' = NoArgs
    /\ ret' = ret
    /\ log' = <<>>
    /\ first' = NoResponse
    /\ second' = NoResponse
    /\ third' = NoResponse
    /\ IF serializable
       THEN pc' = "index_post" /\ result' = "none"
       ELSE Finish("False")
    /\ UNCHANGED <<reindex, detected_language, crawl, browserVars>>

\* lines 386-415: the first POST and the interpretation of its response
index_document_post(o) ==
    /\ pc = "index_post"
    /\ log' = Append(log, Request("index", doc))
    /\ first' = o
    /\ handed' = NoDocument
    /\ args' = NoArgs
    /\ ret' = ret
    /\ LET next == index_document_interpret(o, reindex)
       IN  IF next = "delete"
           THEN pc' = "index_delete" /\ result' = "none"
           ELSE Finish(next)
    /\ UNCHANGED <<reindex, detected_language, crawl, op, doc, second, third, browserVars>>

\* line 405: self.delete_doc(document['documentId']), its value dropped
index_document_delete(o) ==
    /\ pc = "index_delete"
    /\ log' = Append(log, Request("delete", doc))
    /\ second' = o
    /\ IF delete_doc(o) = "raised"
       THEN Finish("raised")
       ELSE pc' = "index_resubmit" /\ result' = "none"
    /\ UNCHANGED <<reindex, detected_language, crawl, op, doc, first, third, browserVars, callVars>>

\* index_document_resubmitted that validates the resubmission's response
index_document_resubmitted_validated(o) ==
    IF o.exc THEN "raised"
    ELSE IF o.status # 200 THEN "False"
    ELSE "True"

\* the value index_document returns after the resubmission (line 407), or
\* "raised" when the POST of line 406 raises
index_document_resubmitted(o) ==
    IF o.exc THEN "raised" ELSE "True"

\* lines 406-407: the resubmission
index_document_resubmit(o) ==
    /\ pc = "index_resubmit"
    /\ log' = Append(log, Request("index", doc))
    /\ third' = o
    /\ Finish(index_document_resubmitted(o))
    /\ UNCHANGED <<reindex, detected_language, crawl, op, doc, first, second, browserVars, callVars>>

\* delete_doc(doc_id) called on its own
delete_doc_call(d) ==
    /\ pc = "idle"
    /\ op' = "delete_doc"
    /\ doc' = d
    /\ UNCHANGED callVars
    /\ log' = <<>>
    /\ first' = NoResponse
    /\ second' = NoResponse
    /\ third' = NoResponse
    /\ pc' = "delete_post"
    /\ result' = "none"
    /\ UNCHANGED <<reindex, detected_language, crawl, browserVars>>

\* lines 208-215
delete_doc_post(o) ==
    /\ pc = "delete_post"
    /\ log' = Append(log, Request("delete", doc))
    /\ first' = o
    /\ Finish(delete_doc(o))
    /\ UNCHANGED <<reindex, detected_language, crawl, op, doc, second, third, browserVars, callVars>>

----------------------------------------------------------------------------
(* index_segments *)

\* longest parts / metadatas list handed to index_segments
MaxParts == 2

\* texts of parts
PartTexts == { "", "a", "b" }

\* metadata dicts
Metadatas == { <<>>, << <<"k", "v">> >> }

\* titles handed to index_segments
Titles == { "", "T" }

\* line 359: zip(parts, metadatas) stops at the shorter list
Min(a, b) == IF a < b THEN a ELSE b

\* index_segments_document pairing the parts with the metadatas in reverse
index_segments_document_misaligned(d, parts, metadatas, doc_metadata, title) ==
    [documentId |-> d,
     hasTitle |-> title # "",
     title |-> title,
     section |-> [i \in 1..Min(Len(parts), Len(metadatas)) |->
                    [text |-> parts[i],
                     metadataJson |->
                         json_dumps(metadatas[Len(metadatas) + 1 - i])]],
     hasMetadata |-> Len(doc_metadata) > 0,
     metadataJson |-> IF Len(doc_metadata) > 0 THEN json_dumps(doc_metadata)
                      ELSE <<>>]

\* lines 355-361: the document index_segments builds
index_segments_document(d, parts, metadatas, doc_metadata, title) ==
    [documentId |-> d,
     hasTitle |-> title # "",
     title |-> title,
     section |-> [i \in 1..Min(Len(parts), Len(metadatas)) |->
                    [text |-> parts[i],
                     metadataJson |-> json_dumps(metadatas[i])]],
     hasMetadata |-> Len(doc_metadata) > 0,
     metadataJson |-> IF Len(doc_metadata) > 0 THEN json_dumps(doc_metadata)
                      ELSE <<>>]

\* lines 355-362: the document is built and handed to index_document
index_segments_start(caller, d, parts, metadatas, doc_metadata, title) ==
    /\ op' = caller
    /\ doc' = d
    /\ handed' = index_segments_document(d, parts, metadatas, doc_metadata, title)
    /\ log' = <<>>
    /\ first' = NoResponse
    /\ second' = NoResponse
    /\ third' = NoResponse
    /\ pc' = "index_serialize"
    /\ result' = "none"

\* lines 368-384 for a document built by index_segments: data =
\* json.dumps(request) succeeds on its strings
index_document_serialize ==
    /\ pc = "index_serialize"
    /\ pc' = "index_post"
    /\ handed' = NoDocument
    /\ args' = NoArgs
    /\ ret' = ret
    /\ UNCHANGED <<reindex, detected_language, crawl, op, doc, log, first, second, third, result,
                   browserVars>>

\* index_segments(doc_id, parts, metadatas, doc_metadata, title)
index_segments_call(d, parts, metadatas, doc_metadata, title) ==
    /\ pc = "idle"
    /\ index_segments_start("index_segments", d, parts, metadatas, doc_metadata,
                            title)
    /\ args' = [doc_id |-> d, parts |-> parts, metadatas |-> metadatas,
                doc_metadata |-> doc_metadata, title |-> title]
    /\ ret' = ret
    /\ UNCHANGED <<reindex, detected_language, crawl, browserVars>>

----------------------------------------------------------------------------
(* get_content_and_title *)

\* languages detect_language may answer with: one with its own stopwords in
\* both tables, the default one, and one that neither table of the model
\* lists
Langs == { "en", "ko", "fr" }

\* lines 29-35, the entries for Langs: the Goose stopwords class of a
\* language ("default" for None), "unsupported" for a language not in the
\* table
language_stopwords_Goose(lang) ==
    IF lang = "en" THEN "default"
    ELSE IF lang = "ko" THEN "Korean"
    ELSE "unsupported"

\* lines 85-88 with the table of lines 37-80: the JusText stoplist of a
\* language, English for 'en' and for a language not in the table
language_stopwords_JusText(lang) ==
    IF lang = "en" THEN "English"
    ELSE IF lang = "ko" THEN "Korean"
    ELSE "English"

GooseStopwords == { "default", "Korean" }
JusTextStoplists == { "English", "Korean" }

\* texts an extractor may produce from a page
ExtractTexts == { "", "aa", "bbbb" }

\* an HTML page is what the extractors make of it: the article (cleaned
\* text, title) Goose extracts under each stopwords class, the text of the
\* paragraphs JusText keeps under each stoplist, and its <title> element
Htmls ==
    [goose : [GooseStopwords -> ExtractTexts \X {"G"}],
     justext : [JusTextStoplists -> ExtractTexts],
     hasTitle : BOOLEAN,
     stitle : {"S"}]

\* lines 84-99
get_content_with_justext(html, lang) ==
    << html.justext[language_stopwords_JusText(lang)],
       IF html.hasTitle THEN html.stitle ELSE "No title" >>

\* lines 101-118
get_content_with_goose3(html, lang) ==
    IF language_stopwords_Goose(lang) # "unsupported"
    THEN html.goose[language_stopwords_Goose(lang)]
    ELSE <<"", "">>

\* get_content_and_title preferring Goose on equal lengths, and taking the
\* title of JusText with either text
get_content_and_title_mixed(html, lang) ==
    LET one == get_content_with_goose3(html, lang)
        two == get_content_with_justext(html, lang)
    IN  IF Len(one[1]) >= Len(two[1]) THEN <<one[1], two[2]>> ELSE two

\* lines 121-129
get_content_and_title(html, lang) ==
    LET one == get_content_with_goose3(html, lang)
        two == get_content_with_justext(html, lang)
    IN  IF Len(one[1]) > Len(two[1]) THEN one ELSE two

\* what BeautifulSoup, langdetect, Goose and JusText make of the contents a
\* rendered page may have: an English page, a Korean page, and a fragment
\* without <body> and <title>
Page ==
    [c \in { "<html>a</html>", "<html>b</html>", "<p>c</p>" } |->
        IF c = "<html>a</html>"
        THEN [goose |-> [w \in GooseStopwords |->
                            IF w = "default" THEN <<"bbbb", "G">> ELSE <<"", "G">>],
              justext |-> [w \in JusTextStoplists |->
                            IF w = "English" THEN "aa" ELSE ""],
              hasTitle |-> TRUE, stitle |-> "S", hasBody |-> TRUE, detect |-> "en"]
        ELSE IF c = "<html>b</html>"
        THEN [goose |-> [w \in GooseStopwords |->
                            IF w = "default" THEN <<"aa", "G">> ELSE <<"bbbb", "G">>],
              justext |-> [w \in JusTextStoplists |->
                            IF w = "English" THEN "" ELSE "aa"],
              hasTitle |-> TRUE, stitle |-> "S", hasBody |-> TRUE, detect |-> "ko"]
        ELSE [goose |-> [w \in GooseStopwords |-> <<"", "">>],
              justext |-> [w \in JusTextStoplists |-> "aa"],
              hasTitle |-> FALSE, stitle |-> "S", hasBody |-> FALSE,
              detect |-> "raises"]]

\* lines 62-71 of utils.py, on what langdetect's detect makes of the text
detect_language(detect) ==
    IF detect \in { "raises", "None" } THEN "en" ELSE detect


\* get_content_and_title(html_content, url, detected_language) called on its
\* own
get_content_and_title_call(html, lang) ==
    /\ pc = "idle"
    /\ op' = "get_content_and_title"
    /\ args' = [html |-> html, lang |-> lang]
    /\ ret' = get_content_and_title(html, lang)
    /\ Finish("returned")
    /\ UNCHANGED <<reindex, detected_language, crawl, doc, log, first, second, third, handed, browserVars>>

----------------------------------------------------------------------------
(* index_file *)

\* line 246: response.json()['details'].split('document id')[1].split("'")[1];
\* ok is FALSE when the expression raises (no JSON body, no 'details' key, or
\* an index past the end of a split's list)
parse_doc_id(o) ==
    IF ~o.json \/ ~o.hasDetails THEN [ok |-> FALSE, id |-> <<>>]
    ELSE LET byMarker == Split(o.details, "document id")
         IN  IF Len(byMarker) < 2 THEN [ok |-> FALSE, id |-> <<>>]
             ELSE LET byQuote == Split(byMarker[2], "'")
                  IN  IF Len(byQuote) < 2 THEN [ok |-> FALSE, id |-> <<>>]
                      ELSE [ok |-> TRUE, id |-> byQuote[2]]

\* index_file_interpret with the test of self.reindex (line 245) left out
index_file_interpret_always_reindex(o, re) ==
    IF o.exc THEN "raised"
    ELSE IF o.status = 409
         THEN (IF parse_doc_id(o).ok THEN "delete" ELSE "raised")
    ELSE IF o.status # 200 THEN "False"
    ELSE "True"

\* lines 244-263 after the upload returned outcome o: "delete" (the reindex
\* branch) or the way the call ends; the POST of line 240 is not inside a try
index_file_interpret(o, re) ==
    IF o.exc THEN "raised"
    ELSE IF o.status = 409
         THEN IF re
              THEN (IF parse_doc_id(o).ok THEN "delete" ELSE "raised")
              ELSE "False"
    ELSE IF o.status # 200 THEN "False"
    ELSE "True"

\* lines 248-256: the value returned after the second upload
index_file_reuploaded(o) ==
    IF o.exc THEN "raised"
    ELSE IF o.status = 200 THEN "True"
    ELSE "True"

\* index_file(filename, uri, metadata), lines 227-239
index_file_call(exists) ==
    /\ pc = "idle"
    /\ op' = "index_file"
    /\ doc' = <<>>
    /\ UNCHANGED callVars
    /\ log' = <<>>
    /\ first' = NoResponse
    /\ second' = NoResponse
    /\ third' = NoResponse
    /\ IF exists
       THEN pc' = "file_upload" /\ result' = "none"
       ELSE Finish("False")
    /\ UNCHANGED <<reindex, detected_language, crawl, browserVars>>

\* lines 240-263: the upload and the interpretation of its response
index_file_upload(o) ==
    /\ pc = "file_upload"
    /\ log' = Append(log, Request("upload", <<>>))
    /\ first' = o
    /\ LET next == index_file_interpret(o, reindex)
       IN  IF next = "delete"
           THEN /\ pc' = "file_delete"
                /\ result' = "none"
                /\ doc' = parse_doc_id(o).id
           ELSE /\ Finish(next)
                /\ doc' = doc
    /\ UNCHANGED <<reindex, detected_language, crawl, op, second, third, browserVars, callVars>>

\* line 247: self.delete_doc(doc_id), its value dropped
index_file_delete(o) ==
    /\ pc = "file_delete"
    /\ log' = Append(log, Request("delete", doc))
    /\ second' = o
    /\ IF delete_doc(o) = "raised"
       THEN Finish("raised")
       ELSE pc' = "file_reupload" /\ result' = "none"
    /\ UNCHANGED <<reindex, detected_language, crawl, op, doc, first, third, browserVars, callVars>>

\* lines 248-256: the second upload
index_file_reupload(o) ==
    /\ pc = "file_reupload"
    /\ log' = Append(log, Request("upload", <<>>))
    /\ third' = o
    /\ Finish(index_file_reuploaded(o))
    /\ UNCHANGED <<reindex, detected_language, crawl, op, doc, first, second, browserVars, callVars>>

----------------------------------------------------------------------------
(* URLs *)

\* a URL is a sequence of chunks: its scheme, the separators "://", "/",
\* ".", "?" and "#", the host prefix "www.", the extensions the code tests
\* for, and words
U(host, path) == <<"http", "://">> \o host \o <<"/">> \o path

Urls ==
    { U(<<"www.", "a", ".", "com">>, <<"p">>),
      U(<<"a", ".", "com">>, <<"p">>),
      U(<<"a", ".", "com">>, <<"P">>),
      U(<<"a", ".", "com">>, <<"f", ".pdf">>),
      U(<<"a", ".", "com">>, <<"r", ".md">>) }

\* str.endswith for a suffix that is one chunk
endswith(s, suffix) == Len(s) > 0 /\ s[Len(s)] = suffix

\* str.lower on a chunk
lower(c) ==
    IF c = "P" THEN "p"
    ELSE IF c = ".IPYNB" THEN ".ipynb"
    ELSE c

Separators == { "://", "/", ".", "?", "#", "=" }

\* what slugify makes of one chunk: a separator becomes a hyphen, a word
\* is lowercased
slug_chunk(c) ==
    IF c \in Separators THEN <<"-">>
    ELSE IF c = "www." THEN <<"www", "-">>
    ELSE IF c = ".pdf" THEN <<"-", "pdf">>
    ELSE IF c = ".md" THEN <<"-", "md">>
    ELSE IF c = ".rst" THEN <<"-", "rst">>
    ELSE IF lower(c) = ".ipynb" THEN <<"-", "ipynb">>
    ELSE <<lower(c)>>

RECURSIVE slug_chunks(_)
slug_chunks(s) ==
    IF s = <<>> THEN <<>> ELSE slug_chunk(Head(s)) \o slug_chunks(Tail(s))

\* runs of hyphens become one hyphen
RECURSIVE collapse(_)
collapse(s) ==
    IF Len(s) < 2 THEN s
    ELSE IF s[1] = "-" /\ s[2] = "-" THEN collapse(Tail(s))
    ELSE <<s[1]>> \o collapse(Tail(s))

\* str.strip('-')
strip(s) ==
    LET a == IF Len(s) > 0 /\ s[1] = "-" THEN Tail(s) ELSE s
    IN  IF Len(a) > 0 /\ a[Len(a)] = "-" THEN SubSeq(a, 1, Len(a) - 1) ELSE a

\* slugify(url) of the package python-slugify: lowercase, every run of
\* characters other than letters and digits becomes one hyphen, no hyphen
\* at either end
slugify(u) == strip(collapse(slug_chunks(u)))

\* the index of the first chunk of s from position i on that is in stops,
\* Len(s) + 1 if there is none
RECURSIVE find(_, _, _)
find(s, i, stops) ==
    IF i > Len(s) THEN Len(s) + 1
    ELSE IF s[i] \in stops THEN i
    ELSE find(s, i + 1, stops)

Schemes == { "http", "https" }

\* urlparse(url): scheme, netloc and path (query and fragment are dropped by
\* normalize_url); a netloc is recognized after "scheme://" only
urlparse(u) ==
    LET hasScheme == Len(u) >= 2 /\ u[1] \in Schemes /\ u[2] = "://"
        rest == IF hasScheme THEN SubSeq(u, 3, Len(u)) ELSE u
        n == IF hasScheme THEN find(rest, 1, {"/", "?", "#"}) ELSE 1
        e == find(rest, n, {"?", "#"})
    IN  [scheme |-> IF hasScheme THEN <<u[1]>> ELSE <<>>,
         netloc |-> SubSeq(rest, 1, n - 1),
         path |-> SubSeq(rest, n, e - 1)]

\* str.replace(old, '') for a chunk old
remove(s, old) == SelectSeq(s, LAMBDA c : c # old)

\* ParseResult(scheme, netloc, path, '', '', '').geturl()
geturl(scheme, netloc, path) ==
    (IF scheme # <<>> THEN scheme \o <<"://">>
     ELSE IF netloc # <<>> THEN <<"//">>
     ELSE <<>>)
    \o netloc \o path

\* lines 34-48 of utils.py
normalize_url(u) ==
    LET withScheme ==
            IF ~Contains(<<"://">>, u) THEN <<"http", "://">> \o u ELSE u
        p == urlparse(withScheme)
        netloc == remove(p.netloc, "www.")
        path == Split(p.path, "?")[1]
    IN  geturl(p.scheme, netloc, path)

\* the URLs normalize_url is called with: an optional scheme, an optional
\* leading "www.", a host, a path and an optional query
UrlSchemes == { <<>>, <<"http", "://">>, <<"https", "://">> }
UrlPrefixes == { <<>>, <<"www.">> }
UrlHosts == { <<"a", ".", "com">>, <<"a", ".", "www.", "b", ".", "com">> }
UrlPaths == { <<>>, <<"/", "p">> }
UrlQueries == { <<>>, <<"?", "x=1">>, <<"?", "u=", "http", "://", "b">> }

\* normalize_url(url) called on its own
normalize_url_call(scheme, www, host, path, query) ==
    /\ pc = "idle"
    /\ op' = "normalize_url"
    /\ args' = [scheme |-> scheme, www |-> www, host |-> host, path |-> path,
                query |-> query,
                url |-> scheme \o www \o host \o path \o query]
    /\ ret' = normalize_url(scheme \o www \o host \o path \o query)
    /\ Finish("returned")
    /\ UNCHANGED <<reindex, detected_language, crawl, doc, log, first, second,
                   third, handed, browserVars>>

----------------------------------------------------------------------------
(* fetch_content_with_timeout *)

\* the browser may be relaunched at most MaxLaunches - 1 times
MaxLaunches == 3

\* what page.content() may return
Contents == DOMAIN Page

\* outcomes of a browser operation: it returns, it raises
\* PlaywrightTimeoutError, or it raises another exception
StepOutcomes == { "ok", "timeout", "error" }

\* the handle of a newly created context or page: one not in use
Fresh(used) == CHOOSE n \in 1..(Cardinality(used) + 1) : n \notin used

PageIds(pgs) == { q.id : q \in pgs }

\* lines 187-188: if context: context.close(); closing a context closes
\* its pages
close_context(ctxs, c) == IF c # 0 THEN ctxs \ {c} ELSE ctxs

\* lines 187-190: the pages left open by context.close() and page.close()
close_pages(pgs, c, p) ==
    { q \in pgs : ~(c # 0 /\ q.ctx = c) /\ ~(p # 0 /\ q.id = p) }

\* the finally block without context.close()
fetch_finally_page_only ==
    /\ contexts' = contexts
    /\ pages' = close_pages(pages, 0, page)

\* lines 186-190: the finally block
fetch_finally ==
    /\ contexts' = close_context(contexts, context)
    /\ pages' = close_pages(pages, context, page)

\* line 192 and the returns of lines 179: the pair goes to the caller, which is
\* index_url (line 326) or the caller of the Indexer
fetch_return ==
    IF op = "index_url"
    THEN pc' = "url_fetched" /\ result' = "none"
    ELSE Finish("returned")

\* fetch_timeout without the except clause of lines 177-179: the timeout
\* reaches the caller
fetch_timeout_propagates ==
    /\ fetch_finally
    /\ fetched' = fetched
    /\ Finish("raised")
    /\ UNCHANGED <<connected, launches, relaunched>>

\* lines 177-179 and the finally block: except PlaywrightTimeoutError
fetch_timeout ==
    /\ fetch_finally
    /\ fetched' = <<"", "">>
    /\ fetch_return
    /\ UNCHANGED <<connected, launches, relaunched>>

\* fetch_error without the relaunch of lines 184-185
fetch_error_no_relaunch ==
    /\ fetch_finally
    /\ fetched' = <<"", "">>
    /\ fetch_return
    /\ UNCHANGED <<connected, launches, relaunched>>

\* lines 180-185, the finally block and line 192: except Exception; the
\* launch of line 185 gives a connected browser, as the one of line 155
fetch_error ==
    /\ fetch_finally
    /\ fetched' = <<"", "">>
    /\ fetch_return
    /\ IF ~connected
       THEN /\ connected' = TRUE
            /\ launches' = launches + 1
            /\ relaunched' = TRUE
       ELSE UNCHANGED <<connected, launches, relaunched>>

\* an operation on the browser or on a page of it: it can return only while
\* the browser is connected; lines 177-192 handle what it raises
fetch_raises(out) ==
    /\ out # "ok"
    /\ exit' = [step |-> pc, out |-> out]
    /\ IF out = "timeout" THEN fetch_timeout ELSE fetch_error
    /\ UNCHANGED <<context, page>>

\* fetch_content_with_timeout(url), line 166
fetch_call(u) ==
    /\ pc = "idle"
    /\ op' = "fetch_content_with_timeout"
    /\ url' = u
    /\ context' = 0
    /\ page' = 0
    /\ pc' = "fetch_context"
    /\ result' = "none"
    /\ fetched' = <<"", "">>
    /\ exit' = NoExit
    /\ relaunched' = FALSE
    /\ UNCHANGED <<reindex, detected_language, crawl, indexVars, connected, launches, contexts, pages>>

\* line 168: context = self.browser.new_context()
fetch_new_context(out) ==
    /\ pc = "fetch_context"
    /\ \/ /\ out = "ok"
          /\ connected
          /\ context' = Fresh(contexts)
          /\ contexts' = contexts \cup {Fresh(contexts)}
          /\ pc' = "fetch_page"
          /\ UNCHANGED <<page, pages, connected, launches, fetched, result, exit, relaunched>>
       \/ fetch_raises(out)
    /\ UNCHANGED <<reindex, detected_language, crawl, op, indexVars, url>>

\* line 169: page = context.new_page()
fetch_new_page(out) ==
    /\ pc = "fetch_page"
    /\ \/ /\ out = "ok"
          /\ connected
          /\ page' = Fresh(PageIds(pages))
          /\ pages' = pages \cup {[id |-> Fresh(PageIds(pages)), ctx |-> context]}
          /\ pc' = "fetch_route"
          /\ UNCHANGED <<context, contexts, connected, launches, fetched, result,
                         exit, relaunched>>
       \/ fetch_raises(out)
    /\ UNCHANGED <<reindex, detected_language, crawl, op, indexVars, url>>

\* lines 170-173: page.route(...)
fetch_route(out) ==
    /\ pc = "fetch_route"
    /\ \/ /\ out = "ok"
          /\ connected
          /\ pc' = "fetch_goto"
          /\ UNCHANGED <<context, page, contexts, pages, connected, launches,
                         fetched, result, exit, relaunched>>
       \/ fetch_raises(out)
    /\ UNCHANGED <<reindex, detected_language, crawl, op, indexVars, url>>

\* line 174: page.goto(url, timeout=timeout*1000)
fetch_goto(out) ==
    /\ pc = "fetch_goto"
    /\ \/ /\ out = "ok"
          /\ connected
          /\ pc' = "fetch_content"
          /\ UNCHANGED <<context, page, contexts, pages, connected, launches,
                         fetched, result, exit, relaunched>>
       \/ fetch_raises(out)
    /\ UNCHANGED <<reindex, detected_language, crawl, op, indexVars, url>>

\* lines 175-176, the finally block and line 192: content = page.content();
\* out_url = page.url; return out_url, content
fetch_content(out, c, u) ==
    /\ pc = "fetch_content"
    /\ \/ /\ out = "ok"
          /\ connected
          /\ fetch_finally
          /\ fetched' = <<u, c>>
          /\ exit' = [step |-> pc, out |-> "ok"]
          /\ fetch_return
          /\ UNCHANGED <<context, page, connected, launches, relaunched>>
       \/ fetch_raises(out)
    /\ UNCHANGED <<reindex, detected_language, crawl, op, indexVars, url>>

----------------------------------------------------------------------------
(* index_url *)

\* a PDF has at most MaxElements elements
MaxElements == 2

Title(text) == [type |-> "Title", text |-> text]
NarrativeText(text) == [type |-> "NarrativeText", text |-> text]

\* the elements partition() may find in a PDF
Elements ==
    { Title("Report"),
      Title("Annual Report of the Year"),
      Title("Notes to the Annual Report"),
      NarrativeText("Body text over ten chars"),
      NarrativeText("More") }

\* str(element)
str(e) == e.text

\* pdf_parts keeping the Title elements
pdf_parts_with_titles(elements) ==
    [i \in 1..Len(elements) |-> str(elements[i])]

\* line 300
pdf_parts(elements) ==
    LET kept == SelectSeq(elements, LAMBDA t : t.type # "Title")
    IN  [i \in 1..Len(kept) |-> str(kept[i])]

\* pdf_titles without the test of the length
pdf_titles_any_length(elements) ==
    LET kept == SelectSeq(elements, LAMBDA x : x.type = "Title")
    IN  [i \in 1..Len(kept) |-> str(kept[i])]

\* line 301
pdf_titles(elements) ==
    LET kept == SelectSeq(elements,
                          LAMBDA x : x.type = "Title" /\ Len(str(x)) > 20)
    IN  [i \in 1..Len(kept) |-> str(kept[i])]

\* line 302
pdf_title(elements) ==
    IF Len(pdf_titles(elements)) > 0 THEN pdf_titles(elements)[1] ELSE "unknown"

\* the files a Markdown URL may serve, and lines 310-320 on them: the text
\* of the HTML the file converts to
MdContents == { "# a", "*b*" }
converted_text(dl_content) == IF dl_content = "# a" THEN "a" ELSE "b"

\* the string a sequence of chunks stands for
RECURSIVE join(_)
join(s) == IF s = <<>> THEN "" ELSE Head(s) \o join(Tail(s))

\* line 319: url.split('/')[-1]
file_name(u) == LET pieces == Split(u, "/") IN join(pieces[Len(pieces)])

\* lines 321 and 337 giving no part
no_part(text) == <<>>

\* lines 321 and 337: parts = [text]
one_part(text) == <<text>>

\* the URL of the document without line 335
final_url_requested(requested, actual_url) == requested

\* line 335: url = actual_url
final_url(requested, actual_url) == actual_url

\* the language detected on every page anew
language_of_each_page(cached, html) ==
    IF html.hasBody THEN detect_language(html.detect) ELSE cached

\* lines 329-334: self.detected_language after them
language(cached, html) ==
    IF cached = "" /\ html.hasBody THEN detect_language(html.detect) ELSE cached

\* the answers to the probe of line 280
ProbeOutcomes ==
    { [exc |-> TRUE, status |-> 0, hasType |-> FALSE, type |-> ""] }
    \cup [exc : {FALSE}, status : {200, 404}, hasType : {FALSE}, type : {""}]
    \cup [exc : {FALSE}, status : {200}, hasType : {TRUE},
          type : {"application/pdf", "text/html"}]

\* lines 292, 308 and 324: the branch taken
branch(u, content_type) ==
    IF content_type = "application/pdf" \/ endswith(u, ".pdf") THEN "url_pdf"
    ELSE IF \/ endswith(u, ".md")
            \/ endswith(u, ".rst")
            \/ (Len(u) > 0 /\ lower(u[Len(u)]) = ".ipynb")
         THEN "url_md"
    ELSE "fetch_context"

\* a step of index_url fails: where, and how the call ends
index_url_fails(r) ==
    /\ exit' = [step |-> pc, out |-> "error"]
    /\ Finish(r)

\* lines 344-345: index_segments(doc_id=slugify(url), parts=parts,
\* metadatas=[{}]*len(parts), doc_metadata=metadata, title=title)
index_url_submit(u, parts, title) ==
    /\ index_segments_start("index_url", slugify(u), parts,
                            [i \in 1..Len(parts) |-> <<>>], args.metadata, title)
    /\ url' = <<>>
    /\ fetched' = <<"", "">>
    /\ exit' = NoExit

\* index_url(url, metadata), lines 274-279
index_url_call(u, metadata) ==
    /\ pc = "idle"
    /\ op' = "index_url"
    /\ url' = u
    /\ args' = [url |-> u, metadata |-> metadata, kind |-> "none",
                content |-> <<>>, actual_url |-> <<>>, cached |-> ""]
    /\ pc' = "url_probe"
    /\ result' = "none"
    /\ UNCHANGED <<reindex, detected_language, crawl, doc, log, first, second, third,
                   handed, ret, connected, launches, contexts, pages, context,
                   page, fetched, exit, relaunched>>

\* lines 275-288: the probe for the content type, and the branch of lines
\* 292, 308 and 324
index_url_probe(o) ==
    /\ pc = "url_probe"
    /\ IF o.exc \/ o.status # 200 \/ ~o.hasType
       THEN index_url_fails("False")
       ELSE /\ pc' = branch(url, o.type)
            /\ UNCHANGED <<result, exit>>
    /\ UNCHANGED <<reindex, detected_language, crawl, op, indexVars, connected,
                   launches, contexts, pages, context, page, url, fetched,
                   relaunched>>

\* lines 293-305: the PDF is downloaded and partitioned; out = "error" when
\* the download, the write or partition() raises
index_url_pdf(out, elements) ==
    /\ pc = "url_pdf"
    /\ IF out = "error"
       THEN /\ index_url_fails("False")
            /\ UNCHANGED <<op, indexVars, url, fetched>>
       ELSE /\ index_url_submit(url, pdf_parts(elements), pdf_title(elements))
            /\ args' = [args EXCEPT !.kind = "pdf", !.content = elements,
                                    !.actual_url = url]
            /\ ret' = ret
    /\ UNCHANGED <<reindex, detected_language, crawl, connected, launches, contexts,
                   pages, context, page, relaunched>>

\* lines 309-321: the file is downloaded and converted, outside any try;
\* out = "error" when the download, the decoding or the conversion raises
index_url_md(out, dl_content) ==
    /\ pc = "url_md"
    /\ IF out = "error"
       THEN /\ index_url_fails("raised")
            /\ UNCHANGED <<op, indexVars, url, fetched>>
       ELSE /\ index_url_submit(url, one_part(converted_text(dl_content)),
                                file_name(url))
            /\ args' = [args EXCEPT !.kind = "md", !.content = dl_content,
                                    !.actual_url = url]
            /\ ret' = ret
    /\ UNCHANGED <<reindex, detected_language, crawl, connected, launches, contexts,
                   pages, context, page, relaunched>>

\* lines 326-342, after fetch_content_with_timeout returned: out =
\* "soup_error" when BeautifulSoup raises (line 330, reached while no
\* language is detected), "extract_error" when get_content_and_title raises
index_url_html(out) ==
    /\ pc = "url_fetched"
    /\ LET actual_url == fetched[1]
           html_content == fetched[2]
       IN  IF Len(html_content) < 3
           THEN /\ Finish("False")
                /\ UNCHANGED <<detected_language, op, indexVars, url, fetched, exit>>
           ELSE IF out = "soup_error" /\ detected_language = ""
           THEN /\ index_url_fails("False")
                /\ UNCHANGED <<detected_language, op, indexVars, url, fetched>>
           ELSE IF out = "extract_error"
           THEN /\ detected_language' = language(detected_language, Page[html_content])
                /\ index_url_fails("False")
                /\ UNCHANGED <<op, indexVars, url, fetched>>
           ELSE /\ detected_language' = language(detected_language, Page[html_content])
                /\ LET pair == get_content_and_title(Page[html_content],
                                                     detected_language')
                   IN  index_url_submit(final_url(url, actual_url),
                                        one_part(pair[1]), pair[2])
                /\ args' = [args EXCEPT !.kind = "html", !.content = html_content,
                                        !.actual_url = actual_url,
                                        !.cached = detected_language]
                /\ ret' = ret
    /\ UNCHANGED <<reindex, crawl, connected, launches, contexts, pages, context,
                   page, relaunched>>

----------------------------------------------------------------------------
(* FmpCrawler.crawl *)

\* cfg.fmp_crawler.tickers has at most MaxTickers tickers, and the years
\* start_year..end_year are at most MaxYears
MaxTickers == 2
MaxYears == 2

FirstYear == 2020
Tickers == { [i \in 1..n |-> i] : n \in 1..MaxTickers }

\* what a GET of the crawler may give: a transport exception, a status
\* other than 200, a 200 whose body is not JSON, a 200 whose JSON has not
\* the expected shape, the expected payload
GetOutcomes == { "exc", "status", "nonjson", "other", "ok" }

\* what self.indexer.index_document(document) may do (C6)
IndexResults == { "True", "False", "raised" }

\* lines 26-36: index_doc returns what index_document returns, and False
\* when it raises
index_doc(r) == IF r = "raised" THEN "False" ELSE r

Item(kind, ticker, year, quarter) ==
    [kind |-> kind, ticker |-> ticker, year |-> year, quarter |-> quarter]

\* the request of the current step is sent
attempt(c, kind) ==
    [c EXCEPT !.attempted = @ \cup {Item(kind, c.ticker, c.year, c.quarter)}]

\* an exception leaves crawl
crawl_raises(c) ==
    /\ crawl' = c
    /\ Finish("raised")

\* line 40: the next ticker, or the end of crawl; year and quarter keep
\* their values
crawl_next_ticker(c) ==
    IF c.ticker < Len(c.tickers)
    THEN /\ crawl' = [c EXCEPT !.ticker = @ + 1]
         /\ pc' = "crawl_profile"
         /\ result' = "none"
    ELSE /\ crawl' = c
         /\ Finish("returned")

\* lines 90-91: the next quarter, the first quarter of the next year, or the
\* next ticker
crawl_next_transcript(c) ==
    IF c.quarter < 4
    THEN /\ crawl' = [c EXCEPT !.quarter = @ + 1]
         /\ UNCHANGED <<pc, result>>
    ELSE IF c.year < c.end_year
    THEN /\ crawl' = [c EXCEPT !.year = @ + 1, !.quarter = 1]
         /\ UNCHANGED <<pc, result>>
    ELSE crawl_next_ticker(c)

\* lines 59 and 90-91: the next year's report, or the first transcript
crawl_next_report(c) ==
    IF c.year < c.end_year
    THEN /\ crawl' = [c EXCEPT !.year = @ + 1]
         /\ UNCHANGED <<pc, result>>
    ELSE /\ crawl' = [c EXCEPT !.year = c.start_year, !.quarter = 1]
         /\ pc' = "crawl_transcript"
         /\ result' = "none"

\* the handlers of lines 45-47 and 63-65 format a message with the local
\* variables year and quarter: a local not assigned yet raises
\* UnboundLocalError, otherwise the loop continues
handler_raises(c) == c.year = 0 \/ c.quarter = 0

\* crawl(), lines 38-40
crawl_call(tickers, years) ==
    /\ pc = "idle"
    /\ op' = "crawl"
    /\ crawl' = [NoCrawl EXCEPT !.tickers = tickers, !.start_year = FirstYear,
                                 !.end_year = FirstYear + years - 1,
                                 !.ticker = 1]
    /\ pc' = "crawl_profile"
    /\ result' = "none"
    /\ UNCHANGED <<reindex, detected_language, indexVars, browserVars>>

\* lines 42-54: the company profile of the ticker
crawl_profile(o) ==
    /\ pc = "crawl_profile"
    /\ LET c == attempt(crawl, "profile")
       IN  IF o = "exc"
           THEN IF handler_raises(c) THEN crawl_raises(c) ELSE crawl_next_ticker(c)
           ELSE IF o = "status" THEN crawl_next_ticker(c)
           ELSE IF o \in {"nonjson", "other"} THEN crawl_raises(c)
           ELSE /\ crawl' = c
                /\ pc' = "crawl_filings"
                /\ result' = "none"
    /\ UNCHANGED <<reindex, detected_language, op, indexVars, browserVars>>

\* lines 57-59: the list of filings, with no try and no test of the status
crawl_filings(o) ==
    /\ pc = "crawl_filings"
    /\ LET c == attempt(crawl, "filings")
           d == [c EXCEPT !.filings = IF o = "ok" THEN "list" ELSE "other"]
       IN  IF o \in {"exc", "nonjson"} THEN crawl_raises(c)
           ELSE IF d.start_year > d.end_year THEN crawl_next_ticker(d)
           ELSE /\ crawl' = [d EXCEPT !.year = d.start_year]
                /\ pc' = "crawl_report"
                /\ result' = "none"
    /\ UNCHANGED <<reindex, detected_language, op, indexVars, browserVars>>

\* a value of the report's JSON: a string, or something else (a number)
Str(text) == [type |-> "str", text |-> text]
Num == [type |-> "int", text |-> ""]

Long == "Revenue grew year over year in every segment of the company."

\* the entries {title: values} under a key of the report's JSON
ReportItem(key, title, values) == [key |-> key, title |-> title, values |-> values]

\* the JSON a yearly report request may give
ReportDatas ==
    { <<>>,
      <<ReportItem("Cover", "Name", <<Str(Long)>>)>>,
      <<ReportItem("Cover", "Name", <<Str("short"), Num, Str("")>>),
        ReportItem("Risks", "Item 1A", <<Str(Long), Str("short"), Num, Str(Long)>>)>>,
      <<ReportItem("Risks", "Item 1A", <<Str(Long), Str(Long)>>),
        ReportItem("Notes", "Item 8", <<Str(Long), Str(""), Str(Long)>>)>> }

\* sep.join(strings)
RECURSIVE join_with(_, _)
join_with(strings, sep) ==
    IF strings = <<>> THEN ""
    ELSE IF Len(strings) = 1 THEN strings[1]
    ELSE strings[1] \o sep \o join_with(Tail(strings), sep)

\* line 83: the values kept
kept_values(values) ==
    LET kept == SelectSeq(values,
                          LAMBDA v : v.text # "" /\ v.type = "str" /\ Len(v.text) >= 10)
    IN  [i \in 1..Len(kept) |-> kept[i].text]

\* lines 78-85: the sections of the report
RECURSIVE report_sections(_)
report_sections(data) ==
    IF data = <<>> THEN <<>>
    ELSE LET values == kept_values(Head(data).values)
         IN  (IF Len(values) > 0 /\ Len(join_with(values, " ")) > 100
              THEN <<[title |-> Head(data).key \o " - " \o Head(data).title,
                      text |-> join_with(values, "\n")]>>
              ELSE <<>>)
             \o report_sections(Tail(data))

\* lines 68-77: the document of the yearly report
report_document(c, data) ==
    [documentId |-> <<"10-K", c.ticker, c.year>>,
     hasTitle |-> TRUE,
     title |-> "10-K",
     section |-> report_sections(data),
     hasMetadata |-> TRUE,
     metadataJson |-> <<"{", "\"type\"", ": ", "\"10-K\"", "}">>]

\* what the transcript request of a quarter may give: no transcript, or one
\* whose content may be empty
Transcripts == { <<>>, <<"">>, <<"Good afternoon.">> }

\* lines 100-111: the document of a transcript
transcript_document(c, content) ==
    [documentId |-> <<"transcript", c.ticker, c.year, c.quarter>>,
     hasTitle |-> TRUE,
     title |-> "Earnings call transcript",
     section |-> <<[text |-> content]>>,
     hasMetadata |-> TRUE,
     metadataJson |-> <<"{", "\"type\"", ": ", "\"transcript\"", "}">>]

\* lines 60-86: the yearly report of the ticker; data is its JSON and r what
\* index_document does with the document
crawl_report(o, r, data) ==
    /\ pc = "crawl_report"
    /\ LET c == attempt(crawl, "report")
       IN  IF o = "exc"
           THEN /\ IF handler_raises(c) THEN crawl_raises(c) ELSE crawl_next_report(c)
                /\ handed' = NoDocument
           ELSE IF o = "status"
           THEN /\ crawl_next_report(c)
                /\ handed' = NoDocument
           ELSE IF o \in {"nonjson", "other"} \/ c.filings # "list"
           THEN /\ crawl_raises(c)
                /\ handed' = NoDocument
           ELSE /\ crawl_next_report([c EXCEPT !.indexed = index_doc(r)])
                /\ handed' = report_document(c, data)
    /\ UNCHANGED <<reindex, detected_language, op, doc, log, first, second, third,
                   args, ret, browserVars>>

\* lines 92-112: the transcript of a quarter; transcripts is the JSON list
\* and r what index_document does with the document
crawl_transcript(o, r, transcripts) ==
    /\ pc = "crawl_transcript"
    /\ LET c == attempt(crawl, "transcript")
       IN  IF o \in {"exc", "status"}
           THEN /\ crawl_next_transcript(c)
                /\ handed' = NoDocument
           ELSE IF o \in {"nonjson", "other"}
           THEN /\ crawl_raises(c)
                /\ handed' = NoDocument
           ELSE IF transcripts = <<>>
           THEN /\ crawl_next_transcript(c)
                /\ handed' = NoDocument
           ELSE /\ crawl_next_transcript([c EXCEPT !.indexed = index_doc(r)])
                /\ handed' = transcript_document(c, transcripts[1])
    /\ UNCHANGED <<reindex, detected_language, op, doc, log, first, second, third,
                   args, ret, browserVars>>

\* the browser process dies or loses its connection; the handles it leaves
\* behind are counted as open until the code closes them
browser_disconnect ==
    /\ connected
    /\ launches < MaxLaunches
    /\ connected' = FALSE
    /\ UNCHANGED <<reindex, detected_language, crawl, pc, op, indexVars, result, launches, contexts, pages,
                   context, page, url, fetched, exit, relaunched>>

\* the caller takes the result; the Indexer is ready for the next call
Return ==
    /\ pc = "done"
    /\ pc' = "idle"
    /\ op' = "none"
    /\ result' = "none"
    /\ doc' = <<>>
    /\ log' = <<>>
    /\ first' = NoResponse
    /\ second' = NoResponse
    /\ third' = NoResponse
    /\ handed' = NoDocument
    /\ args' = NoArgs
    /\ ret' = NoRet
    /\ crawl' = NoCrawl
    /\ context' = 0
    /\ page' = 0
    /\ url' = <<>>
    /\ fetched' = <<"", "">>
    /\ exit' = NoExit
    /\ relaunched' = FALSE
    /\ UNCHANGED <<reindex, detected_language, connected, launches, contexts, pages>>

Next ==
    \/ \E d \in DocIds, s \in BOOLEAN : index_document_call(d, s)
    \/ \E o \in IndexOutcomes : index_document_post(o)
    \/ \E o \in DeleteOutcomes : index_document_delete(o)
    \/ \E o \in ResubmitOutcomes : index_document_resubmit(o)
    \/ \E d \in DocIds : delete_doc_call(d)
    \/ \E o \in DeleteOutcomes : delete_doc_post(o)
    \/ \E d \in DocIds, parts \in SeqsUpTo(PartTexts, MaxParts),
          metadatas \in SeqsUpTo(Metadatas, MaxParts),
          doc_metadata \in Metadatas, title \in Titles :
           index_segments_call(d, parts, metadatas, doc_metadata, title)
    \/ index_document_serialize
    \/ \E html \in Htmls, lang \in Langs : get_content_and_title_call(html, lang)
    \/ \E scheme \in UrlSchemes, www \in UrlPrefixes, host \in UrlHosts,
          path \in UrlPaths, query \in UrlQueries :
           normalize_url_call(scheme, www, host, path, query)
    \/ \E e \in BOOLEAN : index_file_call(e)
    \/ \E o \in UploadOutcomes : index_file_upload(o)
    \/ \E o \in DeleteOutcomes : index_file_delete(o)
    \/ \E o \in UploadOutcomes : index_file_reupload(o)
    \/ \E u \in Urls : fetch_call(u)
    \/ \E out \in StepOutcomes : fetch_new_context(out)
    \/ \E out \in StepOutcomes : fetch_new_page(out)
    \/ \E out \in StepOutcomes : fetch_route(out)
    \/ \E out \in StepOutcomes : fetch_goto(out)
    \/ \E out \in StepOutcomes, c \in Contents, u \in Urls :
           fetch_content(out, c, u)
    \/ \E u \in Urls, metadata \in Metadatas : index_url_call(u, metadata)
    \/ \E o \in ProbeOutcomes : index_url_probe(o)
    \/ \E out \in {"ok", "error"}, elements \in SeqsUpTo(Elements, MaxElements) :
           index_url_pdf(out, elements)
    \/ \E out \in {"ok", "error"}, dl_content \in MdContents :
           index_url_md(out, dl_content)
    \/ \E out \in {"ok", "soup_error", "extract_error"} : index_url_html(out)
    \/ \E tickers \in Tickers, years \in 0..MaxYears : crawl_call(tickers, years)
    \/ \E o \in GetOutcomes : crawl_profile(o)
    \/ \E o \in GetOutcomes : crawl_filings(o)
    \/ \E o \in GetOutcomes \ {"ok"} : crawl_report(o, "True", <<>>)
    \/ \E r \in IndexResults, data \in ReportDatas : crawl_report("ok", r, data)
    \/ \E o \in GetOutcomes \ {"ok"} : crawl_transcript(o, "True", <<>>)
    \/ \E r \in IndexResults, transcripts \in Transcripts :
           crawl_transcript("ok", r, transcripts)
    \/ browser_disconnect
    \/ Return

Spec == Init /\ [][Next]_vars

----------------------------------------------------------------------------
(* Properties *)

\* the current call has ended (with a value or an exception)
Ended(o) == pc = "done" /\ op = o

\* the first request got a response with HTTP status 200 and a JSON payload
\* whose status passes the already-exists / conflict test of lines 400-402
FirstIsConflict ==
    /\ Len(log) >= 1
    /\ ~first.exc
    /\ first.status = 200
    /\ first.json
    /\ IsConflict(first.st) = "true"

\* the payload of the first response has the application status code c
FirstCodeIs(c) ==
    first.json /\ first.st.present /\ first.st.truthy /\ first.st.hasCode
    /\ first.st.code = c

\* a fetch_content_with_timeout call is running, on its own or within
\* index_url
Fetching ==
    pc \in {"fetch_context", "fetch_page", "fetch_route", "fetch_goto",
            "fetch_content"}

\* C1: with reindexing enabled, an index_document call whose first
\* submission is answered 200 with an already-exists / conflict status ends
\* having issued exactly: the submission, one delete of the documentId, one
\* resubmission, in that order, and returns True.
C1_ReindexDeleteThenResubmit ==
    (Ended("index_document") /\ reindex /\ FirstIsConflict)
    => /\ log = <<Request("index", doc), Request("delete", doc),
                  Request("index", doc)>>
       /\ result = "True"

\* C2: with reindexing disabled, an index_document call answered 200 with
\* status code ALREADY_EXISTS returns False and has issued the submission
\* only: no delete request, no second submission.
C2_NoReindexReportsFailure ==
    (Ended("index_document") /\ ~reindex /\ Len(log) >= 1 /\ ~first.exc
     /\ first.status = 200 /\ FirstCodeIs(ALREADY_EXISTS))
    => /\ result = "False"
       /\ log = <<Request("index", doc)>>

\* C2 witness: such a call has ended, the payload carrying a statusDetail
C2_Witness ==
    /\ Ended("index_document") /\ ~reindex /\ ~first.exc
    /\ first.status = 200 /\ FirstCodeIs(ALREADY_EXISTS)
    /\ first.st.hasDetail
    /\ result = "False"

\* C3: an index_document call that took the reindex branch never returns
\* False, and returns True whenever the delete request and the resubmission
\* were answered, whatever their HTTP status and payload.
C3_ReindexResultNotInspected ==
    (Ended("index_document") /\ Len(log) >= 2)
    => /\ result # "False"
       /\ (Len(log) = 3 /\ ~second.exc /\ ~third.exc) => result = "True"

\* C3 witness: the delete was answered 500, the resubmission 409 with a
\* payload that is not OK, and the call returned True
C3_Witness ==
    /\ Ended("index_document") /\ Len(log) = 3
    /\ ~second.exc /\ second.status = 500
    /\ ~third.exc /\ third.status = 409 /\ third.json
    /\ third.st.code = ALREADY_EXISTS
    /\ result = "True"

\* C4: an index_document call answered 200 with a payload that is not an
\* already-exists / conflict response, when it returns, returns True if the
\* application status code is OK and False for every other payload.
C4_TrueExactlyWhenOK ==
    (Ended("index_document") /\ Len(log) >= 1 /\ ~first.exc
     /\ first.status = 200 /\ ~(first.json /\ IsConflict(first.st) = "true")
     /\ result \in {"True", "False"})
    => (result = "True" <=> FirstCodeIs(OK))

\* C5: an index_document call whose first submission is answered with an
\* HTTP status other than 200 returns False having issued that submission
\* only, whatever the payload and whatever self.reindex.
C5_Non200ReportsFailure ==
    (Ended("index_document") /\ Len(log) >= 1 /\ ~first.exc
     /\ first.status # 200)
    => /\ result = "False"
       /\ log = <<Request("index", doc)>>

\* C5 witness: reindexing enabled, the answer is 409 with an ALREADY_EXISTS
\* payload, and the call returned False
C5_Witness ==
    /\ Ended("index_document") /\ reindex /\ ~first.exc
    /\ first.status = 409 /\ FirstCodeIs(ALREADY_EXISTS)
    /\ result = "False"

\* C6: index_document never raises: every call ends with a boolean, and a
\* call whose first submission fails in the transport layer ends with False
\* after that one request.
C6_IndexDocumentNeverRaises ==
    Ended("index_document")
    => /\ result \in {"True", "False"}
       /\ (Len(log) >= 1 /\ first.exc)
            => (result = "False" /\ Len(log) = 1)

\* C7: with reindexing enabled, an index_file call whose upload is answered
\* 409 with an error detail that holds a document id ends having issued
\* exactly: the upload, one delete of the id parsed from the detail, one
\* second upload, and returns True.
C7_FileReindexReportsSuccess ==
    (Ended("index_file") /\ reindex /\ Len(log) >= 1 /\ ~first.exc
     /\ first.status = 409 /\ parse_doc_id(first).ok)
    => /\ log = <<Request("upload", <<>>),
                  Request("delete", parse_doc_id(first).id),
                  Request("upload", <<>>)>>
       /\ result = "True"

\* C8: a delete_doc call issues exactly one delete request, for the given
\* document id; when the request is answered it returns a boolean, and it
\* returns True if and only if the answer's HTTP status is 200.
C8_DeleteTrueIffStatus200 ==
    Ended("delete_doc")
    => /\ log = <<Request("delete", doc)>>
       /\ ~first.exc => result \in {"True", "False"}
       /\ result = "True" <=> (~first.exc /\ first.status = 200)

\* C8 witness: a delete answered with a status other than 200 returned False
C8_Witness ==
    /\ Ended("delete_doc") /\ doc = <<"d2">>
    /\ ~first.exc /\ first.status = 500
    /\ result = "False"

\* C9: whenever no fetch is running, no browsing context and no page is
\* open: every finished fetch_content_with_timeout call has closed what it
\* created.
C9_NoLeakedContextOrPage ==
    ~Fetching => (contexts = {} /\ pages = {})

\* C9 witness: a fetch that failed while creating the page (its context was
\* open) has ended, after an earlier fetch made the browser be relaunched
C9_Witness ==
    /\ Ended("fetch_content_with_timeout")
    /\ exit = [step |-> "fetch_page", out |-> "error"]
    /\ context # 0 /\ page = 0
    /\ launches > 1
    /\ contexts = {}

\* C10: a fetch whose page.goto raised the timeout error returns the pair
\* ('', '') and does not raise.
C10_TimeoutReturnsEmptyPair ==
    (Ended("fetch_content_with_timeout")
     /\ exit = [step |-> "fetch_goto", out |-> "timeout"])
    => /\ result = "returned"
       /\ fetched = <<"", "">>

\* C10 witness: a fetch ended by the navigation timeout
C10_Witness ==
    /\ Ended("fetch_content_with_timeout")
    /\ exit = [step |-> "fetch_goto", out |-> "timeout"]
    /\ page # 0
    /\ result = "returned"

C17_SegmentsBecomeOrderedSections ==
    (op = "index_segments" /\ pc = "index_serialize"
     /\ Len(args.parts) = Len(args.metadatas))
    => /\ Len(handed.section) = Len(args.parts)
       /\ \A i \in 1..Len(args.parts) :
            /\ handed.section[i].text = args.parts[i]
            /\ handed.section[i].metadataJson = json_dumps(args.metadatas[i])
       /\ handed.documentId = args.doc_id
       /\ handed.hasTitle <=> args.title # ""
       /\ handed.hasTitle => handed.title = args.title
       /\ handed.hasMetadata <=> args.doc_metadata # <<>>
       /\ handed.hasMetadata
            => handed.metadataJson = json_dumps(args.doc_metadata)

\* C17 witness: parts ["a", "b"] with two different metadata dicts, a title
\* and a document metadata were handed over as two sections
C17_Witness ==
    /\ op = "index_segments" /\ pc = "index_serialize"
    /\ args.parts = <<"a", "b">>
    /\ args.metadatas = << <<>>, << <<"k", "v">> >> >>
    /\ args.title = "T"
    /\ args.doc_metadata # <<>>
    /\ Len(handed.section) = 2
    /\ handed.section[2].metadataJson = <<"{", "\"k\"", ": ", "\"v\"", "}">>

\* C18: get_content_and_title returns the (text, title) pair of Goose when
\* Goose's text is strictly longer than JusText's, and the pair of JusText
\* otherwise (equal lengths included); text and title come from the same
\* strategy.
C18_LongerTextWithItsTitle ==
    Ended("get_content_and_title")
    => LET one == get_content_with_goose3(args.html, args.lang)
           two == get_content_with_justext(args.html, args.lang)
       IN  /\ Len(one[1]) > Len(two[1]) => ret = one
           /\ Len(one[1]) <= Len(two[1]) => ret = two

\* C18 witness: Goose extracted four characters and JusText two, and the
\* call returned Goose's text with Goose's title
C18_Witness ==
    /\ Ended("get_content_and_title")
    /\ args.lang = "ko"
    /\ args.html.goose["Korean"] = <<"bbbb", "G">>
    /\ args.html.justext["Korean"] = "aa"
    /\ args.html.hasTitle
    /\ ret = <<"bbbb", "G">>

\* index_url has built its document and hands it to index_document
HandOver(kind) ==
    op = "index_url" /\ pc = "index_serialize" /\ args.kind = kind

SectionTexts == [i \in 1..Len(handed.section) |-> handed.section[i].text]

\* C12: an index_url call in which the download or the extraction raised
\* returns False, raises nothing, and has sent no document.
C12_IndexUrlNeverPropagates ==
    (Ended("index_url") /\ exit.out \in {"error", "timeout"})
    => (result = "False" /\ log = <<>>)

\* C13 as stated: every document index_url hands over has exactly one
\* section, for every content kind.
C13_ExactlyOneSection ==
    (op = "index_url" /\ pc = "index_serialize") => Len(handed.section) = 1

\* C13, amended: for Markdown/RST/Notebook and rendered HTML the document has
\* exactly one section, holding the whole extracted text; for a PDF it has
\* one section per non-Title element.
C13_OneSectionExceptPdf ==
    /\ HandOver("md") => SectionTexts = <<converted_text(args.content)>>
    /\ HandOver("html")
       => SectionTexts =
            <<get_content_and_title(Page[args.content], detected_language)[1]>>
    /\ HandOver("pdf")
       => Len(handed.section) =
            Cardinality({ i \in 1..Len(args.content) :
                            args.content[i].type # "Title" })

\* C13 witness: a rendered page handed over as one section, and no metadata
\* on the section
C13_Witness ==
    /\ HandOver("html")
    /\ args.content = "<html>a</html>"
    /\ handed.section = <<[text |-> "bbbb", metadataJson |-> <<"{", "}">>]>>

ExpectedDocument(lang) ==
    LET pair == get_content_and_title(Page[args.content], lang)
        parts == IF args.kind = "pdf" THEN pdf_parts(args.content)
                 ELSE IF args.kind = "md" THEN <<converted_text(args.content)>>
                 ELSE <<pair[1]>>
        title == IF args.kind = "pdf" THEN pdf_title(args.content)
                 ELSE IF args.kind = "md" THEN file_name(args.url)
                 ELSE pair[2]
    IN  index_segments_document(slugify(args.actual_url), parts,
                                [i \in 1..Len(parts) |-> <<>>], args.metadata,
                                title)

\* the language langdetect finds on the page itself
OwnLanguage ==
    IF Page[args.content].hasBody
    THEN detect_language(Page[args.content].detect)
    ELSE ""

\* C15 as stated: the document handed over depends on the URL's content and
\* the configuration only: it is the document an Indexer that processed no
\* URL before builds from them.
C15_IndependentOfEarlierUrls ==
    /\ (HandOver("pdf") \/ HandOver("md")) => handed = ExpectedDocument("")
    /\ HandOver("html") => handed = ExpectedDocument(OwnLanguage)

\* C15, amended: the document depends on the URL's content, the
\* configuration and, for rendered HTML, the language detected on the first
\* rendered page with a body that this Indexer processed: the page is read
\* in that language, and in its own language only when none was detected
\* before.
C15_DependsOnFirstDetectedLanguage ==
    /\ (HandOver("pdf") \/ HandOver("md")) => handed = ExpectedDocument("")
    /\ HandOver("html")
       => handed = ExpectedDocument(IF args.cached # "" THEN args.cached
                                    ELSE OwnLanguage)

\* C15 witness: the Korean page is handed over by an Indexer that detected
\* English on an earlier page, with the text the English stopwords give
C15_Witness ==
    /\ HandOver("html")
    /\ args.content = "<html>b</html>"
    /\ args.cached = "en"
    /\ SectionTexts = <<"aa">>

\* C19: for a PDF the text parts are the texts of the elements that are not
\* Title elements, in the order of the source, and the title is the text of
\* the first Title element longer than 20 characters, "unknown" when there
\* is none.
C19_PdfPartsAndTitle ==
    HandOver("pdf")
    => LET els == args.content
           others == { i \in 1..Len(els) : els[i].type # "Title" }
           long == { i \in 1..Len(els) :
                       els[i].type = "Title" /\ Len(els[i].text) > 20 }
       IN  /\ Len(SectionTexts) = Cardinality(others)
           /\ \E f \in [1..Len(SectionTexts) -> others] :
                /\ \A i, j \in 1..Len(SectionTexts) : i < j => f[i] < f[j]
                /\ \A i \in 1..Len(SectionTexts) : SectionTexts[i] = els[f[i]].text
           /\ IF long = {}
              THEN handed.title = "unknown"
              ELSE \E i \in long : /\ \A j \in long : i <= j
                                   /\ handed.title = els[i].text

\* C19 witness: a PDF whose second element is its only Title, long enough,
\* after a text element
C19_Witness ==
    /\ HandOver("pdf")
    /\ args.content = <<NarrativeText("More"), Title("Annual Report of the Year")>>
    /\ handed.title = "Annual Report of the Year"
    /\ SectionTexts = <<"More">>

\* C20 as stated: the PDF [Title("Report"), NarrativeText("Body text over
\* ten chars")] gets the title "Report" and a text containing the body.
C20_ReportIsTheTitle ==
    (/\ HandOver("pdf")
     /\ args.content = <<Title("Report"), NarrativeText("Body text over ten chars")>>)
    => /\ handed.title = "Report"
       /\ \E i \in 1..Len(SectionTexts) : SectionTexts[i] = "Body text over ten chars"

\* C20, amended: that PDF gets the title "unknown", "Report" having 6
\* characters, and the body as its only text part.
C20_ShortTitleIsUnknown ==
    (/\ HandOver("pdf")
     /\ args.content = <<Title("Report"), NarrativeText("Body text over ten chars")>>)
    => /\ handed.title = "unknown"
       /\ SectionTexts = <<"Body text over ten chars">>

\* C20 witness: that PDF, handed over
C20_Witness ==
    /\ HandOver("pdf")
    /\ args.content = <<Title("Report"), NarrativeText("Body text over ten chars")>>
    /\ handed.hasTitle
    /\ handed.title = "unknown"
    /\ Len(handed.section) = 1

\* the running crawl has sent a request of this kind for ticker i
Attempted(kind, i) ==
    { it \in crawl.attempted : it.kind = kind /\ it.ticker = i }

\* C16: a crawl ends by returning, having attempted every ticker, and for
\* every ticker whose profile it got every year's report and every quarter's
\* transcript, whatever failed on the way.
C16_CrawlAttemptsEveryItem ==
    Ended("crawl")
    => /\ result = "returned"
       /\ \A i \in 1..Len(crawl.tickers) :
            /\ Attempted("profile", i) # {}
            /\ Attempted("filings", i) # {}
               => \A y \in crawl.start_year..crawl.end_year :
                    /\ \E it \in Attempted("report", i) : it.year = y
                    /\ \A q \in 1..4 :
                         \E it \in Attempted("transcript", i) :
                           it.year = y /\ it.quarter = q

\* C24: an index_file call whose upload is answered 409 while reindexing is
\* disabled returns False having sent the upload only; so does a call whose
\* upload is answered any other status than 200; a call for a file that
\* does not exist returns False having sent nothing.
C24_FileFailureSendsNothingMore ==
    Ended("index_file")
    => /\ (Len(log) >= 1 /\ ~first.exc /\ first.status = 409 /\ ~reindex)
          => (result = "False" /\ log = <<Request("upload", <<>>)>>)
       /\ (Len(log) >= 1 /\ ~first.exc /\ first.status \notin {200, 409})
          => (result = "False" /\ log = <<Request("upload", <<>>)>>)
       /\ log = <<>> => (result = "False" /\ first = NoResponse)

\* C24 witness: reindexing disabled, the upload answered 409 with a detail
\* naming the document id, and the call returned False after that one
\* request
C24_Witness ==
    /\ Ended("index_file") /\ ~reindex
    /\ ~first.exc /\ first.status = 409 /\ parse_doc_id(first).ok
    /\ log = <<Request("upload", <<>>)>>
    /\ result = "False"

\* C21: normalize_url is idempotent: normalizing the URL a normalize_url
\* call returned gives that URL again.
C21_NormalizeIdempotent ==
    Ended("normalize_url") => normalize_url(ret) = ret

\* C22: for a host h and a path p, written with or without "http://", with
\* or without a leading "www." and with or without a query, normalize_url
\* returns "http://" followed by h and p.
C22_SameResultForAllSpellings ==
    (Ended("normalize_url") /\ args.scheme \in {<<>>, <<"http", "://">>})
    => ret = <<"http", "://">> \o args.host \o args.path

\* C25: the host of the URL normalize_url returns is the host of its
\* argument with one leading "www." removed, every other character kept.
C25_OnlyLeadingWwwRemoved ==
    (Ended("normalize_url") /\ args.scheme # <<>>)
    => urlparse(ret).netloc = args.host

\* C23: every section of a document handed to index_document, by
\* index_segments, by index_url or by FmpCrawler.crawl, has a text that is
\* not empty.
C23_SectionTextsNotEmpty ==
    \A i \in 1..Len(handed.section) : handed.section[i].text # ""

====
